---------------------------- MODULE Spec2Model ----------------------------
(***************************************************************************)
(* Sentinel AVS: the scan loop (scanner.rs) and the attestation consumer   *)
(* (main.rs) connected by the bounded deposit channel, with the L1         *)
(* submission path of signer.rs.                                           *)
(*                                                                         *)
(* The chain feed (lightwalletd) and the L1 provider are collaborators:    *)
(* get_blockchain_height and scan_block are modelled by their production   *)
(* bodies (the gRPC calls and the trial-decryption loop that the source    *)
(* carries in its "In production" comments), whose results are of type     *)
(* Result<..> and are drawn here from small sets.                          *)
(***************************************************************************)
EXTENDS Naturals, Sequences, FiniteSets

\* ------------------------------------------------------------------ bounds
\* Chain heights the feed reports are 0..MaxHeight.
MaxHeight == 3
\* confirmation_depth is configuration; it is drawn from 0..MaxDepth.
MaxDepth == 1
\* The deposit channel's capacity, scaled down from mpsc::channel(100).
QueueCapacity == 2
\* The nonce counter is capped: no submission succeeds once it is MaxNonce.
MaxNonce == 2
\* The chain feed's RPCs fail at most MaxFeedErrors times in a run.
MaxFeedErrors == 1
\* A block of the modelled chains has at most MaxOutputs shielded outputs.
MaxOutputs == 3

\* ------------------------------------------------------------- chain data
\* What trial decryption and memo parsing make of one shielded output:
\*   "deposit"   decrypts for the vault, memo parses to Ok(Some(payload))
\*   "skip"      no-match, another recipient, or memo parses to Ok(None)
\*   "malformed" decrypts for the vault, memo parse returns Err
OutputKinds == {"deposit", "skip", "malformed"}

\* The chains the feed may serve: each maps a height to the block's outputs,
\* in transaction order then output order.
ChainA == [h \in 1..MaxHeight |->
             IF h = 1 THEN <<"deposit", "skip", "deposit">>
             ELSE IF h % 2 = 0 THEN <<"deposit">>
             ELSE <<>>]

ChainB == [h \in 1..MaxHeight |->
             IF h = 1 THEN <<"skip">>
             ELSE IF h = 2 THEN <<"deposit", "malformed">>
             ELSE <<"deposit">>]

Chains == {ChainA, ChainB}

\* BridgePayload: block_height, and the output's position standing for the
\* transaction it came from (tx_hash, amount and the memo fields).
BridgePayload(h, i) == [block_height |-> h, tx |-> i]

VARIABLES
    \* Scanner
    confirmation_depth,   \* Scanner.confirmation_depth
    last_height,          \* Scanner.last_height, the scan cursor
    chain,                \* the blocks the chain feed serves
    spc,                  \* scan task: "poll" (between two scan_new_blocks) | "scan" (in one) | "dropped"
    current_height,       \* scan_new_blocks: current_height
    safe_height,          \* scan_new_blocks: safe_height
    height,               \* scan_new_blocks: the for loop's height
    deposits,             \* scan_new_blocks: deposits of the block still to send
    blocks_processed,     \* scan_new_blocks: blocks_processed
    \* channel
    queue,                \* mpsc::channel::<BridgePayload>
    \* attestation consumer
    cpc,                  \* consumer task: "recv" | "sign" | "submit" | "wait" | "dropped"
    payload,              \* the dequeued payload
    nonce,                \* let mut nonce: u64
    attestation,          \* the Attestation sign_attestation returned
    calldata,             \* submit_attestation: the calldata of the transaction sent
    \* destination contract
    accepted,             \* nonces the ServiceManager has accepted
    \* process
    down,                 \* main has returned (shutdown)
    abandoned,            \* what the tasks were doing when main returned
    \* history
    tick_result,          \* what the last scan_new_blocks returned: "none" | "ok" | "err"
    pre_height,           \* last_height when the last scan_new_blocks was entered
    range_sent,           \* the deposits sent so far by the current scan_new_blocks
    feed_errors,          \* chain feed failures so far
    signed_nonces,        \* the nonces sign_attestation has been called with
    submitted,            \* the nonces of the attestations submit_attestation returned Ok for, in order
    sign_calls,           \* sign_attestation calls made for the payload dequeued last
    submit_calls,         \* submit_attestation calls made for the payload dequeued last
    send_attempts,        \* send_transaction attempts made by the last submit_attestation call
    \* memo.rs taken alone
    memo_src,             \* where a memo comes from: create_memo's arguments, or what a sender wrote
    memo_made,            \* create_memo: "none" | "ok" | "err"
    memo_given,           \* the [u8; 512] handed to parse
    memo_parsed,          \* what parse returned
    \* signer.rs taken alone
    hin_a,                \* a payload and nonce given to sign_attestation
    hin_b,                \* another payload and nonce given to sign_attestation
    att_a,                \* the Attestation returned for hin_a
    att_b,                \* the Attestation returned for hin_b
    encoded_a             \* submit_attestation(att_a): encoded_payload

scanner_vars == <<confirmation_depth, last_height, chain, spc, current_height,
                  safe_height, height, deposits, blocks_processed>>
consumer_vars == <<cpc, payload, nonce, attestation, calldata>>
history_scan == <<tick_result, pre_height, range_sent, feed_errors>>
history_cons == <<signed_nonces, submitted, sign_calls, submit_calls, send_attempts>>
memo_vars == <<memo_src, memo_made, memo_given, memo_parsed>>
hash_vars == <<hin_a, hin_b, att_a, att_b, encoded_a>>
codec_vars == <<memo_vars, hash_vars>>
pipeline_vars == <<scanner_vars, queue, consumer_vars, accepted, down, abandoned,
                   history_scan, history_cons>>
vars == <<pipeline_vars, codec_vars>>

NoPayload == [block_height |-> 0, tx |-> 0]
NoAttestation == [payload |-> NoPayload, nonce |-> 0]
NoCalldata == <<>>
NothingAbandoned == [scan |-> FALSE, sign |-> FALSE, tx |-> FALSE, queued |-> 0]

\* Values of the variables of memo.rs and signer.rs taken alone before anything
\* is given to them.
NoSource ==
    [kind |-> "none", text |-> <<>>, aztec_address |-> <<>>, secret_hash |-> <<>>,
     payload |-> [msg_type |-> <<>>, aztec_address |-> <<>>,
                  secret_hash |-> <<>>, version |-> 0]]
NoMemo == <<>>
NotParsed == [kind |-> "none", aztec_address |-> <<>>, secret_hash |-> <<>>]
NoBytePayload ==
    [tx_hash |-> <<>>, amount |-> 0, secret_hash |-> <<>>, aztec_address |-> <<>>,
     block_height |-> 0]
NoHashInput == [payload |-> NoBytePayload, nonce |-> 0]
NotSigned ==
    [payload |-> NoBytePayload, nonce |-> 0,
     signature |-> [signed |-> [keccak256 |-> <<>>]]]
NotEncoded == <<>>

MemoIdle ==
    /\ memo_src = NoSource
    /\ memo_made = "none"
    /\ memo_given = NoMemo
    /\ memo_parsed = NotParsed

HashIdle ==
    /\ hin_a = NoHashInput
    /\ hin_b = NoHashInput
    /\ att_a = NotSigned
    /\ att_b = NotSigned
    /\ encoded_a = NotEncoded

\* -------------------------------------------------------------- scanner.rs
\* u32::saturating_sub
SaturatingSub(a, b) == IF a >= b THEN a - b ELSE 0

\* let safe_height = current_height.saturating_sub(self.confirmation_depth);
SafeHeightMutant(current, depth) == current
SafeHeight(current, depth) == SaturatingSub(current, depth)

\* if safe_height <= self.last_height { return Ok(0); }
NothingToScanMutant(safe, last) == safe < last
NothingToScan(safe, last) == safe <= last

\* The deposits pushed while iterating the first n outputs of a block, in order.
RECURSIVE PushDeposits(_, _, _)
PushDeposits(outputs, h, n) ==
    IF n = 0 THEN <<>>
    ELSE IF outputs[n] = "deposit"
         THEN Append(PushDeposits(outputs, h, n - 1), BridgePayload(h, n))
         ELSE PushDeposits(outputs, h, n - 1)

\* scan_block(height): memo_parser.parse(..)? returns the error of the first
\* malformed memo; otherwise the deposits found, in output order (None, an
\* empty block's result, is the empty sequence).
ScanBlock(c, h) ==
    IF \E k \in 1..Len(c[h]) : c[h][k] = "malformed"
    THEN [ok |-> FALSE, deposits |-> <<>>]
    ELSE [ok |-> TRUE, deposits |-> PushDeposits(c[h], h, Len(c[h]))]

\* for deposit in deposits: the next deposit sent and the ones left.
NextDepositMutant(ds) == ds[Len(ds)]
NextDeposit(ds) == Head(ds)

RestDeposits(ds) ==
    LET d == NextDeposit(ds)
    IN  SelectSeq(ds, LAMBDA x : x # d)

\* The cursor when scan_new_blocks returns through `?` at block h: untouched.
CursorOnErrorMutant(last, h) == h
CursorOnError(last, h) == last

\* The cursor after a tick that computed safe_height and returned Ok:
\* scan_new_blocks takes &self and assigns self.last_height nowhere.
CursorAfterTickMutant(last, safe) == safe
CursorAfterTick(last, safe) == last

\* The cursor when scan_new_blocks returns Ok(blocks_processed): the
\* assignment self.last_height = safe_height is commented out.
CursorOnSuccess(last, safe) == CursorAfterTick(last, safe)

\* mpsc::Sender::send completes only when the channel has a free slot.
HasRoomMutant(q) == TRUE
HasRoom(q) == Len(q) < QueueCapacity

\* scan_new_blocks returns: its locals go out of scope.
LocalsDropped ==
    /\ current_height' = 0
    /\ safe_height' = 0
    /\ height' = 0
    /\ blocks_processed' = 0
    /\ range_sent' = <<>>

\* get_blockchain_height() returns Err
GetHeightErr ==
    /\ ~down
    /\ spc = "poll"
    /\ feed_errors < MaxFeedErrors
    /\ feed_errors' = feed_errors + 1
    /\ tick_result' = "err"
    /\ pre_height' = last_height
    /\ UNCHANGED <<scanner_vars, queue, consumer_vars, accepted, down, abandoned, codec_vars,
                   range_sent, history_cons>>

\* get_blockchain_height() returns Ok(H) and safe_height <= last_height: Ok(0).
\* current_height and safe_height keep what this tick saw until the next one.
ScanNoop ==
    /\ ~down
    /\ spc = "poll"
    /\ \E H \in 0..MaxHeight :
        /\ NothingToScan(SafeHeight(H, confirmation_depth), last_height)
        /\ current_height' = H
        /\ safe_height' = SafeHeight(H, confirmation_depth)
        /\ last_height' = CursorAfterTick(last_height, SafeHeight(H, confirmation_depth))
    /\ blocks_processed' = 0
    /\ tick_result' = "ok"
    /\ pre_height' = last_height
    /\ UNCHANGED <<confirmation_depth, chain, spc, height, deposits, range_sent,
                   queue, consumer_vars, accepted, down, abandoned, codec_vars,
                   feed_errors, history_cons>>

\* get_blockchain_height() returns Ok(H) and safe_height > last_height:
\* the loop over (last_height + 1)..=safe_height is entered
ScanStart ==
    /\ ~down
    /\ spc = "poll"
    /\ \E H \in 0..MaxHeight :
        /\ ~NothingToScan(SafeHeight(H, confirmation_depth), last_height)
        /\ current_height' = H
        /\ safe_height' = SafeHeight(H, confirmation_depth)
    /\ spc' = "scan"
    /\ height' = last_height + 1
    /\ blocks_processed' = 0
    /\ range_sent' = <<>>
    /\ pre_height' = last_height
    /\ UNCHANGED <<confirmation_depth, last_height, chain, deposits,
                   queue, consumer_vars, accepted, down, abandoned, codec_vars,
                   tick_result, feed_errors, history_cons>>

\* scan_block(height) returns Err because the chain feed's get_block failed
ScanBlockFeedErr ==
    /\ ~down
    /\ spc = "scan" /\ deposits = <<>> /\ height <= safe_height
    /\ feed_errors < MaxFeedErrors
    /\ feed_errors' = feed_errors + 1
    /\ last_height' = CursorOnError(last_height, height)
    /\ spc' = "poll"
    /\ tick_result' = "err"
    /\ LocalsDropped
    /\ UNCHANGED <<confirmation_depth, chain, deposits, queue, consumer_vars,
                   accepted, down, abandoned, codec_vars, pre_height, history_cons>>

\* scan_block(height) returns Err because a memo of the block is malformed
ScanBlockMemoErr ==
    /\ ~down
    /\ spc = "scan" /\ deposits = <<>> /\ height <= safe_height
    /\ ~ScanBlock(chain, height).ok
    /\ last_height' = CursorOnError(last_height, height)
    /\ spc' = "poll"
    /\ tick_result' = "err"
    /\ LocalsDropped
    /\ UNCHANGED <<confirmation_depth, chain, deposits, queue, consumer_vars,
                   accepted, down, abandoned, codec_vars, pre_height, feed_errors, history_cons>>

\* scan_block(height) returns Ok: the block's deposits are to be sent; a block
\* without deposits is done at once (blocks_processed += 1, next height)
ScanBlockOk ==
    /\ ~down
    /\ spc = "scan" /\ deposits = <<>> /\ height <= safe_height
    /\ ScanBlock(chain, height).ok
    /\ deposits' = ScanBlock(chain, height).deposits
    /\ IF deposits' = <<>>
       THEN height' = height + 1 /\ blocks_processed' = blocks_processed + 1
       ELSE UNCHANGED <<height, blocks_processed>>
    /\ UNCHANGED <<confirmation_depth, last_height, chain, spc, current_height,
                   safe_height, queue, consumer_vars, accepted, down, abandoned, codec_vars,
                   tick_result, pre_height, range_sent, feed_errors,
                   history_cons>>

\* self.deposit_sender.send(deposit).await completes: the channel has room
SendDeposit ==
    /\ ~down
    /\ spc = "scan" /\ deposits # <<>>
    /\ HasRoom(queue)
    /\ queue' = Append(queue, NextDeposit(deposits))
    /\ deposits' = RestDeposits(deposits)
    /\ range_sent' = Append(range_sent, NextDeposit(deposits))
    /\ IF deposits' = <<>>
       THEN height' = height + 1 /\ blocks_processed' = blocks_processed + 1
       ELSE UNCHANGED <<height, blocks_processed>>
    /\ UNCHANGED <<confirmation_depth, last_height, chain, spc, current_height,
                   safe_height, consumer_vars, accepted, down, abandoned, codec_vars,
                   tick_result, pre_height, feed_errors, history_cons>>

\* the loop has run through safe_height: Ok(blocks_processed)
ScanDone ==
    /\ ~down
    /\ spc = "scan" /\ deposits = <<>> /\ height > safe_height
    /\ last_height' = CursorOnSuccess(last_height, safe_height)
    /\ spc' = "poll"
    /\ tick_result' = "ok"
    /\ LocalsDropped
    /\ UNCHANGED <<confirmation_depth, chain, deposits, queue, consumer_vars,
                   accepted, down, abandoned, codec_vars, pre_height, feed_errors, history_cons>>

ScannerNext ==
    \/ GetHeightErr
    \/ ScanNoop
    \/ ScanStart
    \/ ScanBlockFeedErr
    \/ ScanBlockMemoErr
    \/ ScanBlockOk
    \/ SendDeposit
    \/ ScanDone

\* ----------------------------------------------------------------- main.rs
\* deposit_rx.recv(): the item taken from the channel and what is left of it.
RecvItemMutant(q) == q[Len(q)]
RecvItem(q) == Head(q)

RecvRest(q) ==
    LET d == RecvItem(q)
    IN  IF d = Head(q) THEN Tail(q) ELSE SubSeq(q, 1, Len(q) - 1)

\* The consumer is at deposit_rx.recv().await only between two deposits.
AtRecvMutant(pc) == pc \in {"recv", "submit"}
AtRecv(pc) == pc = "recv"

\* The nonce counter after submit_attestation returned Ok: nonce += 1.
NonceAfterOk(n) == n + 1

\* The nonce counter after sign_attestation or submit_attestation returned Err.
NonceAfterErrMutant(n) == n + 1
NonceAfterErr(n) == n

\* The nonce counter after sign_attestation returned Ok.
NonceAfterSignMutant(n) == n + 1
NonceAfterSign(n) == n

\* The body of the while loop ends: payload and attestation go out of scope
\* and the task is back at deposit_rx.recv().await.
IterationEnds ==
    /\ cpc' = "recv"
    /\ payload' = NoPayload
    /\ attestation' = NoAttestation
    /\ calldata' = NoCalldata

\* Where the task goes after sign_attestation or submit_attestation returned
\* Err: the Err arm only logs, the loop goes on with the next recv.
ConsumerStopsMutant(pc) == "stopped"
ConsumerRetriesMutant(pc) == "sign"
ConsumerAfterErr(pc) == "recv"

\* The Err arm of the match: the payload is dropped with the iteration.
IterationFails ==
    /\ cpc' = ConsumerAfterErr(cpc)
    /\ payload' = NoPayload
    /\ attestation' = NoAttestation
    /\ calldata' = NoCalldata

\* let attestation = Attestation { payload: payload.clone(), .. }
SignedPayloadMutant(p) == [p EXCEPT !.tx = 0]
SignedPayload(p) == p

\* while let Some(payload) = deposit_rx.recv().await
Recv ==
    /\ ~down
    /\ AtRecv(cpc)
    /\ queue # <<>>
    /\ payload' = RecvItem(queue)
    /\ queue' = RecvRest(queue)
    /\ cpc' = "sign"
    /\ sign_calls' = 0
    /\ submit_calls' = 0
    /\ send_attempts' = 0
    /\ UNCHANGED <<scanner_vars, nonce, attestation, calldata, accepted, down,
                   abandoned, codec_vars, history_scan, signed_nonces, submitted>>

\* signer.sign_attestation(&payload, nonce) returns Ok(attestation)
SignOk ==
    /\ ~down
    /\ cpc = "sign"
    /\ signed_nonces' = signed_nonces \cup {nonce}
    /\ sign_calls' = sign_calls + 1
    /\ attestation' = [payload |-> SignedPayload(payload), nonce |-> nonce]
    /\ nonce' = NonceAfterSign(nonce)
    /\ cpc' = "submit"
    /\ UNCHANGED <<scanner_vars, queue, payload, calldata, accepted, down,
                   abandoned, codec_vars, history_scan, submitted, submit_calls,
                   send_attempts>>

\* signer.sign_attestation(&payload, nonce) returns Err(Signing)
SignErr ==
    /\ ~down
    /\ cpc = "sign"
    /\ signed_nonces' = signed_nonces \cup {nonce}
    /\ sign_calls' = sign_calls + 1
    /\ nonce' = NonceAfterErr(nonce)
    /\ IterationFails
    /\ UNCHANGED <<scanner_vars, queue, accepted, down, abandoned, codec_vars, history_scan,
                   submitted, submit_calls, send_attempts>>

\* --------------------------------------------------------------- signer.rs
\* A 32-byte word of calldata: what it holds (t) and its value (v).
Word(t, v) == [t |-> t, v |-> v]

\* The first four bytes of keccak256 of the signature of verifyAndDispatch.
Selector == Word("selector", 0)

\* ethers::abi::Token: a static token is its words; Bytes and Array are
\* dynamic: a length and the (padded) data words.
FixedBytes(t, v) == [kind |-> "static", len |-> 0, words |-> <<Word(t, v)>>]
Uint(v) == [kind |-> "static", len |-> 0, words |-> <<Word("uint", v)>>]
Bytes(n, ws) == [kind |-> "bytes", len |-> n, words |-> ws]
Array(ws) == [kind |-> "array", len |-> Len(ws), words |-> ws]

IsDynamic(tok) == tok.kind \in {"bytes", "array"}

\* Words a token takes in the head, and its tail (length word, then data).
HeadWords(tok) == IF IsDynamic(tok) THEN 1 ELSE Len(tok.words)
TailOf(tok) == IF IsDynamic(tok) THEN <<Word("uint", tok.len)>> \o tok.words ELSE <<>>

RECURSIVE HeadSize(_, _)
HeadSize(tokens, n) ==
    IF n = 0 THEN 0 ELSE HeadSize(tokens, n - 1) + HeadWords(tokens[n])

RECURSIVE Tails(_, _)
Tails(tokens, n) ==
    IF n = 0 THEN <<>> ELSE Tails(tokens, n - 1) \o TailOf(tokens[n])

\* The head: a static token in place, a dynamic one as the byte offset of its
\* tail from the start of the encoding.
RECURSIVE Heads(_, _)
Heads(tokens, n) ==
    IF n = 0 THEN <<>>
    ELSE Heads(tokens, n - 1) \o
         ( IF IsDynamic(tokens[n])
           THEN <<Word("uint", 32 * (HeadSize(tokens, Len(tokens))
                                      + Len(Tails(tokens, n - 1))))>>
           ELSE tokens[n].words )

\* ethers::abi::encode(&tokens)
AbiEncode(tokens) == Heads(tokens, Len(tokens)) \o Tails(tokens, Len(tokens))

\* The fields of a payload the scanner took from the chain (tx_hash, amount,
\* secret_hash, aztec_address) stand for the output they were read from.
PayloadId(p) == p.block_height * (MaxOutputs + 1) + p.tx

\* The six tokens of encoded_payload
PayloadTokens(att) ==
    << FixedBytes("tx_hash", PayloadId(att.payload)),
       Uint(PayloadId(att.payload)),
       FixedBytes("secret_hash", PayloadId(att.payload)),
       FixedBytes("aztec_address", PayloadId(att.payload)),
       Uint(att.nonce),
       Uint(att.payload.block_height) >>

\* signature.to_vec(): r, s, v
SignatureLen == 65

\* Token::Bytes(attestation.signature.clone()): the bytes right-padded to words
SignatureToken(att) ==
    Bytes(SignatureLen,
          [k \in 1..((SignatureLen + 31) \div 32) |-> Word("signature", k)])

\* Token::Array(vec![Token::Address(self.address)])
SignersToken == Array(<<Word("address", 0)>>)

\* calldata = selector ++ encoded_payload ++ encoded_sig ++ encoded_signers,
\* each of the three a call of ethers::abi::encode on its own
EncodeCalldata(att) ==
    <<Selector>> \o AbiEncode(PayloadTokens(att))
                 \o AbiEncode(<<SignatureToken(att)>>)
                 \o AbiEncode(<<SignersToken>>)

\* submit_attestation: client.send_transaction(tx, None) returns Ok; the
\* transaction carrying attestation.nonce is in flight
SendTxOk ==
    /\ ~down
    /\ cpc = "submit"
    /\ cpc' = "wait"
    /\ calldata' = EncodeCalldata(attestation)
    /\ submit_calls' = submit_calls + 1
    /\ send_attempts' = send_attempts + 1
    /\ UNCHANGED <<scanner_vars, queue, payload, nonce, attestation, accepted,
                   down, abandoned, codec_vars, history_scan, signed_nonces, submitted,
                   sign_calls>>

\* submit_attestation: client.send_transaction(tx, None) returns Err -> L1 error
SendTxErr ==
    /\ ~down
    /\ cpc = "submit"
    /\ submit_calls' = submit_calls + 1
    /\ send_attempts' = send_attempts + 1
    /\ nonce' = NonceAfterErr(nonce)
    /\ IterationFails
    /\ UNCHANGED <<scanner_vars, queue, accepted, down, abandoned, codec_vars, history_scan,
                   signed_nonces, submitted, sign_calls>>

\* The contract's nonce set after the transaction for nonce n has executed:
\* a nonce is accepted once, a replay reverts.
Execute(acc, n) == acc \cup {n}

\* submit_attestation: pending_tx.await returns Ok(Some(receipt)) of a
\* transaction that executed successfully; Ok(tx_hash), and main does nonce += 1
ReceiptExecuted ==
    /\ ~down
    /\ cpc = "wait"
    /\ nonce < MaxNonce
    /\ attestation.nonce \notin accepted
    /\ accepted' = Execute(accepted, attestation.nonce)
    /\ submitted' = Append(submitted, attestation.nonce)
    /\ nonce' = NonceAfterOk(nonce)
    /\ IterationEnds
    /\ UNCHANGED <<scanner_vars, queue, down, abandoned, codec_vars, history_scan,
                   signed_nonces, sign_calls, submit_calls, send_attempts>>

\* submit_attestation: pending_tx.await returns Ok(Some(receipt)) of a
\* transaction that reverted; receipt.status is not looked at: Ok(tx_hash),
\* and main does nonce += 1
ReceiptReverted ==
    /\ ~down
    /\ cpc = "wait"
    /\ nonce < MaxNonce
    /\ submitted' = Append(submitted, attestation.nonce)
    /\ nonce' = NonceAfterOk(nonce)
    /\ IterationEnds
    /\ UNCHANGED <<scanner_vars, queue, accepted, down, abandoned, codec_vars, history_scan,
                   signed_nonces, sign_calls, submit_calls, send_attempts>>

\* submit_attestation: pending_tx.await returns Err (the provider failed while
\* polling) or Ok(None) (no receipt) -> L1 error; the transaction may have
\* been executed all the same, or not
ReceiptErr ==
    /\ ~down
    /\ cpc = "wait"
    /\ \/ accepted' = accepted
       \/ /\ attestation.nonce \notin accepted
          /\ accepted' = Execute(accepted, attestation.nonce)
    /\ nonce' = NonceAfterErr(nonce)
    /\ IterationFails
    /\ UNCHANGED <<scanner_vars, queue, down, abandoned, codec_vars, history_scan, history_cons>>

ConsumerNext ==
    \/ Recv
    \/ SignOk
    \/ SignErr
    \/ SendTxOk
    \/ SendTxErr
    \/ ReceiptExecuted
    \/ ReceiptReverted
    \/ ReceiptErr

\* tokio::select! polls ctrl_c() next to the two task handles: the signal is
\* taken whatever the tasks are doing and whatever the channel holds.
ShutdownReadyMutant(sp, cp, q) == sp = "poll" /\ cp = "recv" /\ q = <<>>
ShutdownReady(sp, cp, q) == TRUE

\* tokio::select!: ctrl_c() completes; main returns and both tasks are dropped
\* and with them the channel and every local; the cursor and the nonce counter
\* end with the values they have
Shutdown ==
    /\ ~down
    /\ ShutdownReady(spc, cpc, queue)
    /\ down' = TRUE
    /\ abandoned' = [scan |-> spc = "scan", sign |-> cpc \in {"sign", "submit"},
                     tx |-> cpc = "wait", queued |-> Len(queue)]
    /\ spc' = "dropped"
    /\ cpc' = "dropped"
    /\ deposits' = <<>>
    /\ LocalsDropped
    /\ queue' = <<>>
    /\ payload' = NoPayload
    /\ attestation' = NoAttestation
    /\ calldata' = NoCalldata
    /\ sign_calls' = 0
    /\ submit_calls' = 0
    /\ send_attempts' = 0
    /\ UNCHANGED <<confirmation_depth, last_height, chain, nonce, accepted,
                   tick_result, pre_height, feed_errors, signed_nonces,
                   submitted, codec_vars>>

\* ------------------------------------------------------------ specification
\* main before the tasks have taken a step
PipelineStart ==
    /\ last_height = 0
    /\ spc = "poll"
    /\ current_height = 0
    /\ safe_height = 0
    /\ height = 0
    /\ deposits = <<>>
    /\ blocks_processed = 0
    /\ queue = <<>>
    /\ cpc = "recv"
    /\ payload = NoPayload
    /\ nonce = 0
    /\ attestation = NoAttestation
    /\ accepted = {}
    /\ down = FALSE
    /\ tick_result = "none"
    /\ pre_height = 0
    /\ range_sent = <<>>
    /\ feed_errors = 0
    /\ signed_nonces = {}
    /\ submitted = <<>>
    /\ calldata = NoCalldata
    /\ abandoned = NothingAbandoned
    /\ sign_calls = 0
    /\ submit_calls = 0
    /\ send_attempts = 0

Init ==
    /\ confirmation_depth \in 0..MaxDepth
    /\ chain \in Chains
    /\ PipelineStart
    /\ MemoIdle
    /\ HashIdle

Next ==
    \/ GetHeightErr
    \/ ScanNoop
    \/ ScanStart
    \/ ScanBlockFeedErr
    \/ ScanBlockMemoErr
    \/ ScanBlockOk
    \/ SendDeposit
    \/ ScanDone
    \/ Recv
    \/ SignOk
    \/ SignErr
    \/ SendTxOk
    \/ SendTxErr
    \/ ReceiptExecuted
    \/ ReceiptReverted
    \/ ReceiptErr
    \/ Shutdown

Spec == Init /\ [][Next]_vars

\* Both tasks are scheduled by the tokio runtime: a task that can take a step
\* eventually takes one.
LiveSpec == Spec /\ WF_vars(ScannerNext) /\ WF_vars(ConsumerNext)

\* ------------------------------------------------------------------ claims
\* Steps of the scan task, told by what they change.
ReturnsOk == spc = "scan" /\ spc' = "poll" /\ tick_result' = "ok"
ScanFails == spc = "scan" /\ spc' = "poll" /\ tick_result' = "err"
HeightFails == spc = "poll" /\ feed_errors' = feed_errors + 1
Enqueues == Len(range_sent') = Len(range_sent) + 1
Dequeues == ~down' /\ Len(queue') = Len(queue) - 1
Signs == cpc = "sign" /\ cpc' \in {"submit", "recv"}
SendsTx == cpc = "submit" /\ cpc' = "wait"

\* C1: when scan_new_blocks returns Ok after processing every block of the
\* range (last_height + 1)..=safe_height, the cursor equals safe_height.
C1_CursorAdvancesToSafe ==
    [][ReturnsOk => last_height' = safe_height]_vars

\* C2: when get_blockchain_height or scan_block fails, the cursor keeps the
\* value it had when scan_new_blocks was entered, and the next scan starts at
\* the same first height.
C2_CursorKeptOnError ==
    [][ /\ (ScanFails \/ HeightFails) => last_height' = pre_height'
        /\ (tick_result = "err" /\ spc = "poll" /\ spc' = "scan")
              => height' = pre_height + 1 ]_vars

\* A scan that failed partway (at block 2, after block 1 was processed) has
\* been followed by a new scan, which is at its first height again.
C2_Witness ==
    /\ chain = ChainB
    /\ feed_errors = 0
    /\ tick_result = "err"
    /\ spc = "scan"
    /\ height = 1

\* C3: each nonce value is passed to sign_attestation at most once.
C3_NonceSignedOnce ==
    [][Signs => nonce \notin signed_nonces]_vars

\* C4: the k-th attestation whose submission succeeded carries nonce k - 1, and
\* it attests the deposit the consumer dequeued last (deposits are dequeued in
\* the order of their discovery, C9).
C4_NoncesInOrder ==
    [][ submitted' # submitted =>
          /\ submitted' = Append(submitted, Len(submitted))
          /\ attestation = [payload |-> payload, nonce |-> Len(submitted)] ]_vars

\* Two submissions have succeeded and the contract accepted both; a third
\* deposit has been dequeued.
C4_Witness ==
    /\ Len(submitted) = 2
    /\ accepted = {0, 1}
    /\ cpc = "sign"

\* C5: the nonce counter changes only by +1 and only in the step in which
\* submit_attestation returns Ok for the attestation carrying the current nonce.
C5_NonceAdvancesOnlyOnSubmitOk ==
    [][ nonce' # nonce =>
          /\ nonce' = nonce + 1
          /\ cpc = "wait"
          /\ attestation.nonce = nonce
          /\ submitted' = Append(submitted, nonce) ]_vars

\* After one successful submission the next attestation has been signed with
\* nonce 1, and signing has left the counter at 1.
C5_Witness ==
    /\ Len(submitted) = 1
    /\ cpc = "submit"
    /\ attestation.nonce = 1
    /\ nonce = 1

\* C6: no transaction is sent for an attestation whose nonce the contract has
\* already accepted.
C6_NoSubmitOfAcceptedNonce ==
    [][SendsTx => attestation.nonce \notin accepted]_vars

\* C7: a deposit of block h is enqueued only in a scan whose observed chain
\* height H satisfies h <= max(0, H - confirmation_depth).
C7_EnqueuedOnlyWhenConfirmed ==
    [][ Enqueues =>
          LET d == range_sent'[Len(range_sent')]
              safe == IF current_height >= confirmation_depth
                      THEN current_height - confirmation_depth ELSE 0
          IN  /\ d.block_height <= safe
              /\ queue' = Append(queue, d) ]_vars

\* With a positive confirmation depth, a deposit of block h has been enqueued
\* in the scan that observed H = h + confirmation_depth.
C7_Witness ==
    /\ confirmation_depth > 0
    /\ range_sent # <<>>
    /\ range_sent[Len(range_sent)].block_height + confirmation_depth = current_height

\* C8: every block that is at a height <= safe_height again and again is
\* eventually processed by the scan loop: the loop gets past it, its scan_block
\* having returned Ok and its deposits having been sent (or the process is shut
\* down). The chain feed stops failing after MaxFeedErrors failures.
C8_EveryBlockProcessed ==
    \A h \in 1..MaxHeight :
        ([]<>(spc = "scan" /\ h <= safe_height))
            => <>(down \/ (spc = "scan" /\ height > h))

\* C9: a deposit is dequeued only when the consumer is at recv with the sign
\* and submit of the previous deposit finished, and it is the oldest item of
\* the channel.
C9_FifoOneAtATime ==
    [][ Dequeues =>
          /\ cpc = "recv"
          /\ payload = NoPayload /\ attestation = NoAttestation
          /\ payload' = Head(queue)
          /\ queue' = Tail(queue) ]_vars

\* A transaction is in flight for one deposit while the channel is full of
\* later ones.
C9_Witness ==
    /\ cpc = "wait"
    /\ Len(queue) = QueueCapacity
    /\ payload \notin {queue[k] : k \in 1..Len(queue)}

\* The deposits of the blocks lo..hi of the chain.
DepositsIn(lo, hi) ==
    {d \in [block_height : lo..hi, tx : 1..MaxOutputs] :
        /\ d.tx <= Len(chain[d.block_height])
        /\ chain[d.block_height][d.tx] = "deposit"}

\* Ascending block height, then output order within the block.
Before(a, b) ==
    \/ a.block_height < b.block_height
    \/ a.block_height = b.block_height /\ a.tx < b.tx

\* C10: within one scan, the k-th deposit sent is the k-th deposit of the range
\* in ascending block height and, within a block, output order.
C10_SentInOrder ==
    spc = "scan" =>
        \A k \in 1..Len(range_sent) :
            /\ range_sent[k] \in DepositsIn(last_height + 1, safe_height)
            /\ Cardinality({d \in DepositsIn(last_height + 1, safe_height) :
                              Before(d, range_sent[k])}) = k - 1

\* Both deposits of block 1 and then the deposit of block 2 have been sent.
C10_Witness ==
    /\ Len(range_sent) = 3
    /\ range_sent[1].block_height = 1
    /\ range_sent[2].block_height = 1
    /\ range_sent[3].block_height = 2

\* C11: the queue never holds more than QueueCapacity items; while it is full
\* and the scan loop has a deposit to send, the scan loop does nothing (the
\* deposit stays the next one to send, nothing is recorded as sent) until an
\* item has been dequeued; and a send only appends the pending deposit, the
\* items already queued stay as they are.
Blocked == spc = "scan" /\ deposits # <<>> /\ Len(queue) = QueueCapacity

C11_QueueNeverOverfull ==
    [][ /\ Len(queue') <= QueueCapacity
        /\ (Blocked /\ ~down') =>
              /\ deposits' = deposits
              /\ range_sent' = range_sent
              /\ height' = height
              /\ spc' = spc
        /\ Enqueues =>
              /\ Len(queue) < QueueCapacity
              /\ queue' = Append(queue, Head(deposits))
      ]_vars

\* the scan loop is blocked in send on a full queue
C11_Witness ==
    /\ Blocked
    /\ ~down
    /\ cpc = "wait"

\* C12: a failed unit of work stops neither loop. A step in which
\* sign_attestation or submit_attestation fails (the consumer leaves its
\* working stages without a submission having succeeded) puts the consumer
\* back at recv, and a step in which a scan fails (get_blockchain_height or
\* scan_block returned Err) puts the scan loop back at its poll; and until
\* shutdown each loop is at one of its stages, the consumer at recv can take
\* the next deposit whenever the queue holds one and the scan loop at its
\* poll can always poll again.
Working == {"sign", "submit", "wait"}
ConsumerFails ==
    /\ cpc \in Working
    /\ cpc' \notin Working
    /\ ~down'
    /\ submitted' = submitted

LoopsAlive ==
    ~down =>
        /\ spc \in {"poll", "scan"}
        /\ cpc \in {"recv"} \cup Working
        /\ (cpc = "recv" /\ queue # <<>>) => ENABLED Recv
        /\ spc = "poll" => ENABLED (ScanNoop \/ ScanStart)

C12_LoopsSurviveFailures ==
    /\ []LoopsAlive
    /\ [][ /\ ConsumerFails => cpc' = "recv"
           /\ (ScanFails \/ HeightFails) => spc' = "poll"
           /\ (spc = "scan" /\ spc' # "scan" /\ ~down') => spc' = "poll"
         ]_vars

\* after a failed scan and a failed signing or submission (a nonce was signed,
\* no submission succeeded) the scan loop is scanning again and the consumer
\* has dequeued the next deposit
C12_Witness ==
    /\ ~down
    /\ tick_result = "err"
    /\ spc = "scan"
    /\ signed_nonces # {}
    /\ submitted = <<>>
    /\ cpc = "sign"
    /\ sign_calls = 0

\* C13: for every dequeued deposit sign_attestation is called at most once and
\* submit_attestation at most once; a deposit whose signing or submission
\* failed is dropped: the failing step leaves the queue as it is and leaves
\* the consumer without a payload, and the queue only ever grows by a send of
\* the scan loop.
SubmitCalled == submit_calls' = submit_calls + 1

C13_FailedDepositDropped ==
    /\ [](sign_calls <= 1 /\ submit_calls <= 1)
    /\ [][ /\ Signs => sign_calls = 0 /\ sign_calls' = 1
           /\ SubmitCalled => submit_calls = 0 /\ sign_calls = 1
           /\ ConsumerFails => queue' = queue /\ payload' = NoPayload
           /\ Len(queue') > Len(queue) => Enqueues
         ]_vars

\* a deposit was signed once, its submission failed, and the consumer is back
\* at recv without it
C13_Witness ==
    /\ ~down
    /\ cpc = "recv"
    /\ payload = NoPayload
    /\ sign_calls = 1
    /\ submit_calls = 1
    /\ signed_nonces = {0}
    /\ submitted = <<>>

\* SentinelConfig::max_retries: MAX_RETRIES, 3 when unset
max_retries == 3

\* C14: submit_attestation reports a submission error for a failing
\* send_transaction (a network/RPC failure) only when the retries are
\* exhausted: the failing call has made max_retries attempts to send.
SubmitNetworkError == cpc = "submit" /\ ConsumerFails

C14_ErrorOnlyAfterRetries ==
    [][ SubmitNetworkError => send_attempts' = max_retries ]_vars

\* C15: the shutdown signal is taken in every state the running process can
\* be in, whatever the queue holds and whatever the tasks are doing; the step
\* that takes it ends both tasks and drops the queue, and leaves the cursor,
\* the nonce counter and the record of successful submissions as they were;
\* nothing happens after it.
ShutsDown == ~down /\ down'

C15_ShutdownAbandonsWork ==
    /\ [](~down => ENABLED Shutdown)
    /\ [][ /\ ShutsDown =>
                /\ last_height' = last_height
                /\ nonce' = nonce
                /\ submitted' = submitted
                /\ signed_nonces' = signed_nonces
                /\ spc' = "dropped"
                /\ cpc' = "dropped"
                /\ queue' = <<>>
           /\ ~down
         ]_vars

\* shut down in the middle of a range, with a transaction sent but not
\* confirmed and deposits still queued: the cursor and the nonce counter have
\* not moved
C15_Witness ==
    /\ down
    /\ abandoned.scan
    /\ abandoned.tx
    /\ abandoned.queued > 0
    /\ last_height = 0
    /\ nonce = 0
    /\ signed_nonces = {0}
    /\ submitted = <<>>

\* C16: a step that changes the cursor changes nothing of the consumer, a
\* step that changes the nonce counter is a step of the consumer at work and
\* changes nothing of the scan task; until shutdown no step changes the state
\* of both tasks, the scan task touches the queue only by appending its
\* pending deposit and the consumer only by taking the head; and a payload is
\* the same from the queue to the attestation: queued items stay as they are,
\* the payload dequeued is the head of the queue, it does not change while the
\* consumer works on it, and the attestation signed and submitted carries it.
ScanTaskSteps == scanner_vars' # scanner_vars
ConsumerSteps == consumer_vars' # consumer_vars

C16_TasksShareOnlyTheQueue ==
    [][ /\ last_height' # last_height =>
              UNCHANGED <<consumer_vars, history_cons, accepted>>
        /\ nonce' # nonce =>
              cpc \in Working /\ UNCHANGED <<scanner_vars, history_scan>>
        /\ ~down' =>
              /\ ~(ScanTaskSteps /\ ConsumerSteps)
              /\ ScanTaskSteps =>
                    \/ queue' = queue
                    \/ deposits # <<>> /\ queue' = Append(queue, Head(deposits))
              /\ ConsumerSteps =>
                    \/ queue' = queue
                    \/ queue # <<>> /\ queue' = Tail(queue)
              /\ Dequeues => payload' = Head(queue)
              /\ (cpc \in Working /\ cpc' \in Working) => payload' = payload
              /\ cpc' \in {"submit", "wait"} => attestation'.payload = payload'
      ]_vars

\* the consumer waits for the receipt of the attestation of the payload it
\* dequeued, after an earlier submission advanced the nonce counter, while the
\* scan task is in a range and the queue holds a deposit
C16_Witness ==
    /\ ~down
    /\ cpc = "wait"
    /\ payload # NoPayload
    /\ attestation.payload = payload
    /\ nonce = 1
    /\ spc = "scan"
    /\ queue # <<>>

\* C17: no step lowers the cursor, whatever heights the chain feed reports
\* from one tick to the next and whatever errors occur.
C17_CursorNeverDecreases ==
    [][ last_height' >= last_height ]_vars

\* a tick that saw safe height 1 is under way after an earlier tick, which
\* failed, had seen a higher chain (a deposit of block 2 is still queued): the
\* cursor is not below what it was when that tick began
C17_Witness ==
    /\ ~down
    /\ spc = "scan"
    /\ safe_height = 1
    /\ tick_result = "err"
    /\ \E k \in 1..Len(queue) : queue[k].block_height = 2
    /\ last_height >= pre_height

\* C18: a tick that gets the chain height H with max(0, H - confirmation_depth)
\* at or below the cursor is a no-op: the scan loop stays at its poll, no block
\* is scanned (no deposits found, nothing sent), the queue and the cursor are
\* unchanged, and the tick returns Ok with 0 blocks processed.
TickGetsHeight ==
    /\ spc = "poll"
    /\ ~down'
    /\ ~HeightFails
    /\ <<scanner_vars, tick_result>>' # <<scanner_vars, tick_result>>

Max0Sub(a, b) == IF a < b THEN 0 ELSE a - b

C18_NoopWhenNothingConfirmed ==
    [][ (TickGetsHeight /\ Max0Sub(current_height', confirmation_depth) <= last_height) =>
            /\ spc' = "poll"
            /\ height' = height
            /\ deposits' = <<>>
            /\ range_sent' = <<>>
            /\ queue' = queue
            /\ last_height' = last_height
            /\ blocks_processed' = 0
            /\ tick_result' = "ok"
      ]_vars

\* a tick has seen a chain lower than the confirmation depth, where the safe
\* height saturates to 0, and returned Ok doing nothing
C18_Witness ==
    /\ ~down
    /\ spc = "poll"
    /\ tick_result = "ok"
    /\ current_height < confirmation_depth
    /\ safe_height = 0
    /\ last_height = 0
    /\ queue = <<>>
    /\ signed_nonces = {}

\* C19: a malformed memo costs only its own deposit. When the scan loop takes
\* up a block with a malformed memo (and the chain feed does not fail), the
\* scan goes on in the same tick with the qualifying deposits of the block's
\* other outputs to send; and no output with a malformed memo is ever sent.
HasMalformed(outputs) == \E k \in 1..Len(outputs) : outputs[k] = "malformed"

TakesUpMalformedBlock ==
    /\ spc = "scan"
    /\ deposits = <<>>
    /\ height <= safe_height
    /\ HasMalformed(chain[height])
    /\ ScanTaskSteps
    /\ feed_errors' = feed_errors
    /\ ~down'

C19_MalformedMemoDropsOnlyItself ==
    [][ /\ TakesUpMalformedBlock =>
              /\ spc' = "scan"
              /\ deposits' = PushDeposits(chain[height], height, Len(chain[height]))
        /\ \A k \in 1..Len(range_sent') :
              chain[range_sent'[k].block_height][range_sent'[k].tx] = "deposit"
      ]_vars

\* The ABI encoding of verifyAndDispatch's three arguments together: the
\* struct is static, its six words stand in the head in place.
StaticTuple(tokens) ==
    [kind |-> "static", len |-> 0, words |-> Heads(tokens, Len(tokens))]

ReferenceCalldata(att) ==
    <<Selector>> \o AbiEncode(<< StaticTuple(PayloadTokens(att)),
                                 SignatureToken(att),
                                 SignersToken >>)

\* C20: the calldata of the transaction submit_attestation has sent is the
\* selector followed by the ABI encoding of the one tuple (payload struct,
\* signature bytes, signers array): the six struct words, the offsets of the
\* two dynamic arguments, then their tails.
C20_CalldataIsAbiEncodedCall ==
    cpc = "wait" => calldata = ReferenceCalldata(attestation)

\* ----------------------------------------------------------------- memo.rs
\* Text is a sequence of bytes (0..255); the literals are ASCII.
\* "bridge_deposit"
BridgeDeposit == <<98, 114, 105, 100, 103, 101, 95, 100, 101, 112, 111, 115, 105, 116>>
\* "other"
OtherType == <<111, 116, 104, 101, 114>>
\* "0x"
Prefix0x == <<48, 120>>
\* the member names of MemoPayload: "type" (serde rename of msg_type),
\* "aztec_address", "secret_hash", "version"
KeyType == <<116, 121, 112, 101>>
KeyAztecAddress == <<97, 122, 116, 101, 99, 95, 97, 100, 100, 114, 101, 115, 115>>
KeySecretHash == <<115, 101, 99, 114, 101, 116, 95, 104, 97, 115, 104>>
KeyVersion == <<118, 101, 114, 115, 105, 111, 110>>

\* memo: &[u8; 512]
MemoLen == 512
\* MemoParser::new(): expected_version: 1
expected_version == 1

\* A value computed once and then used: the one member of a singleton
The(S) == CHOOSE r \in S : TRUE

\* hex::encode: two lowercase digits for each byte, high nibble first
HexDigit(n) == IF n < 10 THEN 48 + n ELSE 87 + n

HexByteMutant(b) == <<HexDigit(b % 16), HexDigit(b \div 16)>>
HexByte(b) == <<HexDigit(b \div 16), HexDigit(b % 16)>>

RECURSIVE HexEncode(_)
HexEncode(bytes) ==
    IF bytes = <<>> THEN <<>>
    ELSE HexByte(Head(bytes)) \o HexEncode(Tail(bytes))

\* hex::decode: the value of a digit of either case, 16 for any other byte
HexVal(c) ==
    IF c \in 48..57 THEN c - 48
    ELSE IF c \in 97..102 THEN c - 87
    ELSE IF c \in 65..70 THEN c - 55
    ELSE 16

\* hex::decode: Err for an odd length or a byte that is not a hex digit
HexDecode(cs) ==
    IF Len(cs) % 2 = 1 \/ \E k \in 1..Len(cs) : HexVal(cs[k]) = 16
    THEN [ok |-> FALSE, bytes |-> <<>>]
    ELSE [ok |-> TRUE,
          bytes |-> [k \in 1..(Len(cs) \div 2) |->
                        16 * HexVal(cs[2 * k - 1]) + HexVal(cs[2 * k])]]

\* hex_str.strip_prefix("0x").unwrap_or(hex_str)
StripPrefix(cs) ==
    IF Len(cs) >= 2 /\ SubSeq(cs, 1, 2) = Prefix0x
    THEN SubSeq(cs, 3, Len(cs))
    ELSE cs

\* parse_hex_address: Err(InvalidPayload) unless 64 hex digits are left
\* after the prefix
HexStrLenOkMutant(cs) == TRUE
HexStrLenOk(cs) == Len(cs) = 64

parse_hex_address(hex_str) ==
    LET stripped == StripPrefix(hex_str)
    IN  IF ~HexStrLenOk(stripped)
        THEN [ok |-> FALSE, bytes |-> <<>>]
        ELSE HexDecode(stripped)

\* MemoPayload { msg_type, aztec_address, secret_hash, version }
MemoPayload(t, a, s, v) ==
    [msg_type |-> t, aztec_address |-> a, secret_hash |-> s, version |-> v]

\* A string value in JSON text: the strings written here hold no quote,
\* backslash or control character, so nothing is escaped.
JsonString(s) == <<34>> \o s \o <<34>>

\* A u8 in JSON text: its decimal digits
RECURSIVE Digits(_)
Digits(n) == IF n < 10 THEN <<48 + n>> ELSE Digits(n \div 10) \o <<48 + (n % 10)>>

\* serde_json::to_string(&payload): the members in field order
\* {"type":..,"aztec_address":..,"secret_hash":..,"version":..}
ToJson(p) ==
    <<123>> \o JsonString(KeyType) \o <<58>> \o JsonString(p.msg_type)
    \o <<44>> \o JsonString(KeyAztecAddress) \o <<58>> \o JsonString(p.aztec_address)
    \o <<44>> \o JsonString(KeySecretHash) \o <<58>> \o JsonString(p.secret_hash)
    \o <<44>> \o JsonString(KeyVersion) \o <<58>> \o Digits(p.version)
    \o <<125>>

\* serde_json::from_str reads an object of string and number members, with
\* whitespace between the tokens; strings with escapes and values of other
\* kinds are not among the memos modelled and are refused here.
IsJsonWs(c) == c \in {32, 9, 10, 13}
IsDigit(c) == c \in 48..57

\* the index of the first byte from i on that is not white space
SkipWs(cs, i) ==
    IF i > Len(cs) THEN i
    ELSE CHOOSE k \in i..(Len(cs) + 1) :
            /\ k = Len(cs) + 1 \/ ~IsJsonWs(cs[k])
            /\ \A m \in i..(k - 1) : IsJsonWs(cs[m])

\* a string's text ends at a quote, and is refused at a backslash or a
\* control character
StringStop(c) == c = 34 \/ c = 92 \/ c < 32

\* the index of the quote that closes a string whose text starts at j; 0 if none
StringEnd(cs, j) ==
    IF \A k \in j..Len(cs) : ~StringStop(cs[k]) THEN 0
    ELSE The({ IF cs[e] = 34 THEN e ELSE 0 :
               e \in { CHOOSE k \in j..Len(cs) :
                          /\ StringStop(cs[k])
                          /\ \A m \in j..(k - 1) : ~StringStop(cs[m]) } })

\* the index of the last digit of the run of digits that starts at j
NumberEnd(cs, j) ==
    CHOOSE k \in j..Len(cs) :
        /\ \A m \in j..k : IsDigit(cs[m])
        /\ k = Len(cs) \/ ~IsDigit(cs[k + 1])

\* the value of at most three digits; 256 stands for every number above 255
DecimalValue(ds) ==
    IF Len(ds) > 3 THEN 256
    ELSE IF Len(ds) = 3
         THEN IF 100 * (ds[1] - 48) + 10 * (ds[2] - 48) + (ds[3] - 48) > 255
              THEN 256
              ELSE 100 * (ds[1] - 48) + 10 * (ds[2] - 48) + (ds[3] - 48)
    ELSE IF Len(ds) = 2 THEN 10 * (ds[1] - 48) + (ds[2] - 48)
    ELSE ds[1] - 48

NoValue == [ok |-> FALSE, kind |-> "none", str |-> <<>>, num |-> 0, next |-> 0]

\* one JSON value starting at i: a string or an unsigned integer
JsonValue(cs, i) ==
    IF i > Len(cs) THEN NoValue
    ELSE IF cs[i] = 34
         THEN LET e == StringEnd(cs, i + 1)
              IN  IF e = 0 THEN NoValue
                  ELSE [ok |-> TRUE, kind |-> "string",
                        str |-> SubSeq(cs, i + 1, e - 1), num |-> 0, next |-> e + 1]
    ELSE IF IsDigit(cs[i])
         THEN LET e == NumberEnd(cs, i)
              IN  IF cs[i] = 48 /\ e > i THEN NoValue
                  ELSE IF e < Len(cs) /\ cs[e + 1] \in {46, 69, 101} THEN NoValue
                  ELSE [ok |-> TRUE, kind |-> "number", str |-> <<>>,
                        num |-> DecimalValue(SubSeq(cs, i, e)), next |-> e + 1]
    ELSE NoValue

NoMembers == [ok |-> FALSE, members |-> <<>>, next |-> 0]

RECURSIVE JsonMembers(_, _, _)

\* after a member's value: the closing brace, or a comma and the next member
MemberEnd(cs, acc, member, after) ==
    IF after > Len(cs) THEN NoMembers
    ELSE IF cs[after] = 125
         THEN [ok |-> TRUE, members |-> Append(acc, member), next |-> after + 1]
    ELSE IF cs[after] = 44
         THEN The({ JsonMembers(cs, i, ms) :
                    i \in {SkipWs(cs, after + 1)}, ms \in {Append(acc, member)} })
    ELSE NoMembers

\* after a member's key: the colon and the value
MemberValue(cs, acc, key, colon) ==
    IF colon > Len(cs) \/ cs[colon] # 58 THEN NoMembers
    ELSE The({ IF ~val.ok THEN NoMembers
               ELSE The({ MemberEnd(cs, acc,
                                    [key |-> key.str, kind |-> val.kind,
                                     str |-> val.str, num |-> val.num],
                                    after) :
                          after \in {SkipWs(cs, val.next)} }) :
               val \in {JsonValue(cs, SkipWs(cs, colon + 1))} })

\* the members of an object from the key at i up to the closing brace
JsonMembers(cs, i, acc) ==
    The({ IF ~key.ok \/ key.kind # "string" THEN NoMembers
          ELSE The({ MemberValue(cs, acc, key, colon) :
                     colon \in {SkipWs(cs, key.next)} }) :
          key \in {JsonValue(cs, i)} })

\* what follows the opening brace: the closing one, or the members
ObjectBody(cs, first) ==
    IF first <= Len(cs) /\ cs[first] = 125
    THEN [ok |-> TRUE, members |-> <<>>, next |-> first + 1]
    ELSE JsonMembers(cs, first, <<>>)

\* the text as one JSON object and nothing after it
JsonObject(cs) ==
    The({ IF open > Len(cs) \/ cs[open] # 123 THEN NoMembers
          ELSE The({ IF ~body.ok THEN NoMembers
                     ELSE IF SkipWs(cs, body.next) # Len(cs) + 1 THEN NoMembers
                     ELSE body :
                     body \in { The({ ObjectBody(cs, first) :
                                      first \in {SkipWs(cs, open + 1)} }) } }) :
          open \in {SkipWs(cs, 1)} })

\* #[derive(Deserialize)] for MemoPayload: each of the four members once and
\* of its type (version a u8); members of other names are ignored
Named(ms, key) == SelectSeq(ms, LAMBDA m : m.key = key)

HasField(ms, key, kind) ==
    /\ Len(Named(ms, key)) = 1
    /\ Named(ms, key)[1].kind = kind

NoMemoPayload == [ok |-> FALSE, payload |-> MemoPayload(<<>>, <<>>, <<>>, 0)]

Deserialize(ms) ==
    IF ~( /\ HasField(ms, KeyType, "string")
          /\ HasField(ms, KeyAztecAddress, "string")
          /\ HasField(ms, KeySecretHash, "string")
          /\ HasField(ms, KeyVersion, "number")
          /\ Named(ms, KeyVersion)[1].num <= 255 )
    THEN NoMemoPayload
    ELSE [ok |-> TRUE,
          payload |-> MemoPayload(Named(ms, KeyType)[1].str,
                                  Named(ms, KeyAztecAddress)[1].str,
                                  Named(ms, KeySecretHash)[1].str,
                                  Named(ms, KeyVersion)[1].num)]

\* serde_json::from_str::<MemoPayload>(json_str)
FromStr(cs) ==
    The({ IF obj.ok THEN Deserialize(obj.members) ELSE NoMemoPayload :
          obj \in {JsonObject(cs)} })

\* memo.iter().position(|&b| b == 0).unwrap_or(512): the number of bytes
\* before the first zero byte
JsonEnd(memo) ==
    LET zeros == {k \in 1..Len(memo) : memo[k] = 0}
    IN  IF zeros = {} THEN Len(memo)
        ELSE (CHOOSE k \in zeros : \A j \in zeros : k <= j) - 1

\* std::str::from_utf8: every byte is ASCII, or leads a sequence of two to
\* four bytes with its continuation bytes, or is one of those continuation
\* bytes (overlong forms and surrogates are not told apart here)
IsCont(b) == b \in 128..191

LeadLen(b) ==
    IF b \in 194..223 THEN 2
    ELSE IF b \in 224..239 THEN 3
    ELSE IF b \in 240..244 THEN 4
    ELSE 0

IsUtf8(bs) ==
    \A i \in 1..Len(bs) :
        \/ bs[i] < 128
        \/ /\ LeadLen(bs[i]) > 0
           /\ i + LeadLen(bs[i]) - 1 <= Len(bs)
           /\ \A j \in (i + 1)..(i + LeadLen(bs[i]) - 1) : IsCont(bs[j])
        \/ /\ IsCont(bs[i])
           /\ \E d \in 1..3 :
                /\ i > d
                /\ LeadLen(bs[i - d]) > d
                /\ \A j \in (i - d + 1)..(i - 1) : IsCont(bs[j])

\* str::trim: leading and trailing whitespace removed (the ASCII whitespace;
\* the memos modelled hold no other)
IsSpace(c) == c \in {9, 10, 11, 12, 13, 32}

Trim(cs) ==
    LET keep == {k \in 1..Len(cs) : ~IsSpace(cs[k])}
    IN  IF keep = {} THEN <<>>
        ELSE SubSeq(cs, CHOOSE k \in keep : \A j \in keep : k <= j,
                        CHOOSE k \in keep : \A j \in keep : k >= j)

\* Result<Option<ParsedPayload>, SentinelError>
OkNone == [kind |-> "Ok(None)", aztec_address |-> <<>>, secret_hash |-> <<>>]
OkSome(a, s) == [kind |-> "Ok(Some)", aztec_address |-> a, secret_hash |-> s]
ErrInvalidPayload ==
    [kind |-> "Err(InvalidPayload)", aztec_address |-> <<>>, secret_hash |-> <<>>]

\* if payload.msg_type != "bridge_deposit" { return Ok(None); }
TypeOk(t) == t = BridgeDeposit

\* if payload.version != self.expected_version { return Ok(None); }
VersionOkMutant(v) == TRUE
VersionOk(v) == v = expected_version

\* MemoParser::parse, from the deserialized payload on: the type and version
\* checks, then the two addresses
ParsePayload(memo_payload) ==
    LET aztec_address == parse_hex_address(memo_payload.aztec_address)
        secret_hash == parse_hex_address(memo_payload.secret_hash)
    IN  IF ~TypeOk(memo_payload.msg_type) THEN OkNone
        ELSE IF ~VersionOk(memo_payload.version) THEN OkNone
        ELSE IF ~aztec_address.ok THEN ErrInvalidPayload
        ELSE IF ~secret_hash.ok THEN ErrInvalidPayload
        ELSE OkSome(aztec_address.bytes, secret_hash.bytes)

\* Err(e) => { debug!("Memo is not valid JSON"); return Ok(None); }
OnJsonErrorMutant(read) ==
    [kind |-> "Err(Json)", aztec_address |-> <<>>, secret_hash |-> <<>>]
OnJsonError(read) == OkNone

\* MemoParser::parse, from the trimmed string on
ParseStr(json_str) ==
    IF json_str = <<>> THEN OkNone
    ELSE The({ IF read.ok THEN ParsePayload(read.payload) ELSE OnJsonError(read) :
               read \in {FromStr(json_str)} })

\* MemoParser::parse, from the bytes before the first zero on
ParseBytes(json_bytes) ==
    IF ~IsUtf8(json_bytes) THEN OkNone
    ELSE The({ ParseStr(json_str) : json_str \in {Trim(json_bytes)} })

\* MemoParser::parse
parse(memo) ==
    The({ ParseBytes(json_bytes) :
          json_bytes \in {SubSeq(memo, 1, JsonEnd(memo))} })

\* let mut memo = [0u8; 512]; memo[..json.len()].copy_from_slice(json.as_bytes())
Padded(json) ==
    [k \in 1..MemoLen |-> IF k <= Len(json) THEN json[k] ELSE 0]

\* format!("0x{}", hex::encode(bytes))
HexField(bytes) == Prefix0x \o HexEncode(bytes)

\* MemoParser::create_memo: Err(InvalidPayload) if the JSON is longer than the memo
create_memo(aztec_address, secret_hash) ==
    LET memo_payload == MemoPayload(BridgeDeposit, HexField(aztec_address),
                                    HexField(secret_hash), 1)
        json == ToJson(memo_payload)
    IN  IF Len(json) > MemoLen
        THEN [ok |-> FALSE, memo |-> <<>>]
        ELSE [ok |-> TRUE, memo |-> Padded(json)]

\* ------------------------------------------------- signer.rs, byte by byte
\* An unsigned integer as big-endian bytes, left-padded with zeros to len
RECURSIVE BigEndian(_, _)
BigEndian(n, len) ==
    IF len = 0 THEN <<>> ELSE Append(BigEndian(n \div 256, len - 1), n % 256)

\* Token::Uint(U256::from(n)) encoded: a 32-byte word
UintWordMutant(n) ==
    [k \in 1..32 |-> IF k <= 4 THEN (n \div (256 ^ (k - 1))) % 256 ELSE 0]
UintWord(n) == BigEndian(n, 32)

\* Token::FixedBytes(bytes.to_vec()) of a [u8; 32] encoded: the bytes
FixedBytesWord(bytes) == bytes

\* ethers::abi::encode of static tokens: their words one after the other
RECURSIVE EncodeStatic(_)
EncodeStatic(words) ==
    IF words = <<>> THEN <<>> ELSE Head(words) \o EncodeStatic(Tail(words))

\* compute_payload_hash: the six tokens
HashTokens(p, n) ==
    << FixedBytesWord(p.tx_hash),
       UintWord(p.amount),
       FixedBytesWord(p.secret_hash),
       FixedBytesWord(p.aztec_address),
       UintWord(n),
       UintWord(p.block_height) >>

\* let encoded = encode(&tokens)
HashPreimageMutant(p, n) == EncodeStatic(SubSeq(HashTokens(p, n), 1, 5))
HashPreimage(p, n) == EncodeStatic(HashTokens(p, n))

\* keccak256, taken as collision-free: the digest stands for its input
keccak256(bytes) == [keccak256 |-> bytes]

compute_payload_hash(p, n) == keccak256(HashPreimage(p, n))

\* sign_attestation: Attestation { payload: payload.clone(), nonce, signature },
\* the signature being the wallet's over the message hash
AttestedNonceMutant(p, n) == p.block_height
AttestedNonce(p, n) == n

sign_attestation(p, n) ==
    [payload |-> p,
     nonce |-> AttestedNonce(p, n),
     signature |-> [signed |-> compute_payload_hash(p, n)]]

\* submit_attestation: the six tokens of encoded_payload
SubmitTokens(att) ==
    << FixedBytesWord(att.payload.tx_hash),
       UintWord(att.payload.amount),
       FixedBytesWord(att.payload.secret_hash),
       FixedBytesWord(att.payload.aztec_address),
       UintWord(att.nonce),
       UintWord(att.payload.block_height) >>

\* let encoded_payload = ethers::abi::encode(&[..])
EncodedPayload(att) == EncodeStatic(SubmitTokens(att))

\* --------------------------------------------- memo.rs taken alone: inputs
\* [b; 32]
Fill(b) == [k \in 1..32 |-> b]

\* 32-byte values given to create_memo: [0x12; 32] and [0x34; 32] of
\* test_create_memo, all zeros, all 0xff, and two of distinct bytes
Bytes32Values ==
    { Fill(18), Fill(52), Fill(0), Fill(255),
      [k \in 1..32 |-> k], [k \in 1..32 |-> 8 * k - 1] }

\* Strings a sender may put in aztec_address or secret_hash: "0x" and 64
\* digits; 64 digits without prefix; upper-case digits; "0x" and 63 digits;
\* "0x" and 63 digits and "g"; "0x", 62 digits and a two-byte character;
\* "0x1234" of test_parse_invalid_type
HexStrings ==
    { HexField(Fill(18)),
      HexEncode(Fill(52)),
      Prefix0x \o [k \in 1..64 |-> 65],
      Prefix0x \o SubSeq(HexEncode(Fill(18)), 1, 63),
      Prefix0x \o SubSeq(HexEncode(Fill(18)), 1, 63) \o <<103>>,
      Prefix0x \o SubSeq(HexEncode(Fill(18)), 1, 62) \o <<195, 169>>,
      <<48, 120, 49, 50, 51, 52>> }

\* Memos that are the JSON of a MemoPayload a sender filled in
SentPayloads ==
    { MemoPayload(t, a, s, v) :
        t \in {BridgeDeposit, OtherType}, a \in HexStrings, s \in HexStrings,
        v \in {1, 2} }

\* Other memo contents: nothing (all zero bytes); spaces, three and 512;
\* bytes that are not UTF-8; text that is not JSON; JSON of another shape
\* ({"foo":"bar"}, [1,2]); a bridge_deposit object without version; one whose
\* version is a string; JSON with white space around it; and a valid memo
\* followed by a zero byte and bytes that are not UTF-8
SentTexts ==
    { <<>>,
      <<32, 32, 32>>,
      [k \in 1..MemoLen |-> 32],
      <<255, 254>>,
      <<123, 34, 116, 121, 112, 101, 34, 58, 34>> \o <<200>>,
      <<104, 101, 108, 108, 111>>,
      <<123, 34, 102, 111, 111, 34, 58, 34, 98, 97, 114, 34, 125>>,
      <<91, 49, 44, 50, 93>>,
      <<123>> \o JsonString(KeyType) \o <<58>> \o JsonString(BridgeDeposit)
        \o <<44>> \o JsonString(KeyAztecAddress) \o <<58>> \o JsonString(HexField(Fill(18)))
        \o <<44>> \o JsonString(KeySecretHash) \o <<58>> \o JsonString(HexField(Fill(52)))
        \o <<125>>,
      <<123>> \o JsonString(KeyType) \o <<58>> \o JsonString(BridgeDeposit)
        \o <<44>> \o JsonString(KeyAztecAddress) \o <<58>> \o JsonString(HexField(Fill(18)))
        \o <<44>> \o JsonString(KeySecretHash) \o <<58>> \o JsonString(HexField(Fill(52)))
        \o <<44>> \o JsonString(KeyVersion) \o <<58>> \o JsonString(<<49>>)
        \o <<125>>,
      <<32, 10>> \o ToJson(MemoPayload(BridgeDeposit, HexField(Fill(18)),
                                       HexField(Fill(52)), 1)) \o <<10>>,
      ToJson(MemoPayload(BridgeDeposit, HexField(Fill(18)),
                         HexField(Fill(52)), 1)) \o <<0, 255>> }

Source(kind, text, a, s, p) ==
    [kind |-> kind, text |-> text, aztec_address |-> a, secret_hash |-> s,
     payload |-> p]

MemoSources ==
    { Source("create_memo", <<>>, a, s, NoSource.payload) :
        a \in Bytes32Values, s \in Bytes32Values }
    \cup { Source("json", <<>>, <<>>, <<>>, p) : p \in SentPayloads }
    \cup { Source("text", t, <<>>, <<>>, NoSource.payload) : t \in SentTexts }

\* The memo of a note as its sender wrote it
SentMemo(src) ==
    IF src.kind = "json" THEN Padded(ToJson(src.payload))
    ELSE IF src.kind = "text" THEN Padded(src.text)
    ELSE NoMemo

\* ------------------------------------------------------ memo.rs taken alone
\* MemoParser::create_memo(aztec_address, secret_hash)
CreateMemo ==
    /\ memo_src.kind = "create_memo"
    /\ memo_made = "none"
    /\ LET made == create_memo(memo_src.aztec_address, memo_src.secret_hash)
       IN  /\ memo_made' = IF made.ok THEN "ok" ELSE "err"
           /\ memo_given' = made.memo
    /\ UNCHANGED <<pipeline_vars, hash_vars, memo_src, memo_parsed>>

\* parser.parse(&memo)
ParseMemo ==
    /\ memo_given # NoMemo
    /\ memo_parsed = NotParsed
    /\ memo_parsed' = parse(memo_given)
    /\ UNCHANGED <<pipeline_vars, hash_vars, memo_src, memo_made, memo_given>>

MemoInit ==
    /\ confirmation_depth = 0
    /\ chain = ChainA
    /\ PipelineStart
    /\ HashIdle
    /\ memo_src \in MemoSources
    /\ memo_made = "none"
    /\ memo_given = SentMemo(memo_src)
    /\ memo_parsed = NotParsed

MemoNext ==
    \/ CreateMemo
    \/ ParseMemo

MemoSpec == MemoInit /\ [][MemoNext]_vars

\* --------------------------------------------------------- claims C23..C26
\* C23: round trip. For 32-byte values a and s, create_memo(a, s) succeeds
\* with a memo of 512 bytes, and parse of that memo is Some payload whose
\* aztec_address is a and whose secret_hash is s.
C23_RoundTrip ==
    (memo_src.kind = "create_memo" /\ memo_made # "none") =>
        /\ memo_made = "ok"
        /\ Len(memo_given) = MemoLen
        /\ memo_parsed # NotParsed =>
              /\ memo_parsed.kind = "Ok(Some)"
              /\ memo_parsed.aztec_address = memo_src.aztec_address
              /\ memo_parsed.secret_hash = memo_src.secret_hash

C23_Witness ==
    /\ memo_src.kind = "create_memo"
    /\ memo_src.aztec_address # memo_src.secret_hash
    /\ memo_src.aztec_address \notin {Fill(0), Fill(255)}
    /\ memo_made = "ok"
    /\ memo_parsed.kind = "Ok(Some)"

\* The memo handed to parse, by what it holds before its first zero byte:
\* nothing; bytes that are not UTF-8; white space only; text that is not a
\* JSON object with the four members of MemoPayload.
C24_AllZero == \A k \in 1..Len(memo_given) : memo_given[k] = 0

C24_NotUtf8 ==
    \E content \in {SubSeq(memo_given, 1, JsonEnd(memo_given))} :
        ~IsUtf8(content)

C24_Blank ==
    \E content \in {SubSeq(memo_given, 1, JsonEnd(memo_given))} :
        /\ content # <<>>
        /\ \A k \in 1..Len(content) : IsSpace(content[k])

C24_NotPayload ==
    \E content \in {SubSeq(memo_given, 1, JsonEnd(memo_given))} :
        /\ IsUtf8(content)
        /\ \E k \in 1..Len(content) : ~IsSpace(content[k])
        /\ \E text \in {Trim(content)} : ~FromStr(text).ok

C25_IsHexDigit(c) == c \in (48..57) \cup (97..102) \cup (65..70)

C25_Digits(str) ==
    IF Len(str) >= 2 /\ str[1] = 48 /\ str[2] = 120
    THEN [k \in 1..(Len(str) - 2) |-> str[k + 2]]
    ELSE str

C25_BadHex(str) ==
    \/ Len(C25_Digits(str)) # 64
    \/ \E k \in 1..Len(C25_Digits(str)) : ~C25_IsHexDigit(C25_Digits(str)[k])

C25_Recognized ==
    /\ memo_src.kind = "json"
    /\ memo_src.payload.msg_type = BridgeDeposit
    /\ memo_src.payload.version = 1
    /\ memo_parsed # NotParsed

\* C25: for a memo of type bridge_deposit and version 1, parse returns
\* InvalidPayload whenever aztec_address or secret_hash, without an optional
\* 0x prefix, is not exactly 64 characters long or holds a character that is
\* not a hex digit.
C25_MalformedHexIsError ==
    ( /\ C25_Recognized
      /\ \/ C25_BadHex(memo_src.payload.aztec_address)
         \/ C25_BadHex(memo_src.payload.secret_hash) )
    => memo_parsed = ErrInvalidPayload

C25_Witness ==
    /\ C25_Recognized
    /\ Len(C25_Digits(memo_src.payload.aztec_address)) = 63
    /\ ~C25_BadHex(memo_src.payload.secret_hash)
    /\ memo_parsed = ErrInvalidPayload

\* C26: a memo whose type is not bridge_deposit, or whose version is not 1,
\* parses to Ok(None) and not to an error, also when its aztec_address or
\* secret_hash is malformed hex.
C26_TypeAndVersionComeFirst ==
    ( /\ memo_src.kind = "json"
      /\ memo_parsed # NotParsed
      /\ \/ memo_src.payload.msg_type # BridgeDeposit
         \/ memo_src.payload.version # 1 )
    => memo_parsed = OkNone

C26_Witness ==
    /\ memo_src.kind = "json"
    /\ memo_src.payload.msg_type = BridgeDeposit
    /\ memo_src.payload.version = 2
    /\ C25_BadHex(memo_src.payload.aztec_address)
    /\ memo_parsed = OkNone

\* ---------------------------------------- signer.rs taken alone: the hashing
\* BridgePayload values: those of test_payload_hash ([0xab; 32], 1000000000,
\* [0xcd; 32], [0xef; 32], 100), and others with bytes that are not all alike
HashPayloads ==
    { [tx_hash |-> t, amount |-> a, secret_hash |-> s, aztec_address |-> z,
       block_height |-> h] :
        t \in {Fill(171), [k \in 1..32 |-> k]},
        a \in {1000000000, 2},
        s \in {Fill(205), [k \in 1..32 |-> 8 * k - 1]},
        z \in {Fill(239), Fill(205)},
        h \in {100, 2} }

\* (payload, nonce) as given to sign_attestation
HashInputs == [payload : HashPayloads, nonce : {1, 2}]

\* signer.sign_attestation(&payload, nonce) on the first input
SignA ==
    /\ hin_a # NoHashInput
    /\ att_a = NotSigned
    /\ att_a' = sign_attestation(hin_a.payload, hin_a.nonce)
    /\ UNCHANGED <<pipeline_vars, memo_vars, hin_a, hin_b, att_b, encoded_a>>

\* signer.sign_attestation(&payload, nonce) on the second input
SignB ==
    /\ hin_b # NoHashInput
    /\ att_b = NotSigned
    /\ att_b' = sign_attestation(hin_b.payload, hin_b.nonce)
    /\ UNCHANGED <<pipeline_vars, memo_vars, hin_a, hin_b, att_a, encoded_a>>

\* signer.submit_attestation(&attestation), up to encoded_payload
EncodeA ==
    /\ att_a # NotSigned
    /\ encoded_a = NotEncoded
    /\ encoded_a' = EncodedPayload(att_a)
    /\ UNCHANGED <<pipeline_vars, memo_vars, hin_a, hin_b, att_a, att_b>>

HashInit ==
    /\ confirmation_depth = 0
    /\ chain = ChainA
    /\ PipelineStart
    /\ MemoIdle
    /\ hin_a \in HashInputs
    /\ hin_b \in HashInputs
    /\ att_a = NotSigned
    /\ att_b = NotSigned
    /\ encoded_a = NotEncoded

HashNext ==
    \/ SignA
    \/ SignB
    \/ EncodeA

HashSpec == HashInit /\ [][HashNext]_vars

\* --------------------------------------------------- claims C21, C22, C28
\* what keccak256 was given when the first input was signed
C21_Preimage == att_a.signature.signed.keccak256

\* the k-th 32-byte word of a byte string
C21_WordOf(bytes, k) == SubSeq(bytes, 32 * (k - 1) + 1, 32 * k)

\* a 32-byte word that is n (below 2^32), big-endian and left-padded with zeros
C21_IsUint(word, n) ==
    /\ Len(word) = 32
    /\ \A k \in 1..28 : word[k] = 0
    /\ \A k \in 29..32 : word[k] \in 0..255
    /\ word[29] * 16777216 + word[30] * 65536 + word[31] * 256 + word[32] = n

\* C21: the hash pre-image is exactly six 32-byte words, in the order
\* tx_hash, amount, secret_hash, aztec_address, nonce, block_height; the
\* 32-byte fields are copied as they are, the integers are big-endian and
\* left-padded with zeros to 32 bytes.
C21_PreimageIsSixWords ==
    att_a # NotSigned =>
        /\ Len(C21_Preimage) = 192
        /\ C21_WordOf(C21_Preimage, 1) = hin_a.payload.tx_hash
        /\ C21_IsUint(C21_WordOf(C21_Preimage, 2), hin_a.payload.amount)
        /\ C21_WordOf(C21_Preimage, 3) = hin_a.payload.secret_hash
        /\ C21_WordOf(C21_Preimage, 4) = hin_a.payload.aztec_address
        /\ C21_IsUint(C21_WordOf(C21_Preimage, 5), hin_a.nonce)
        /\ C21_IsUint(C21_WordOf(C21_Preimage, 6), hin_a.payload.block_height)

C21_Witness ==
    /\ att_a # NotSigned
    /\ hin_a.payload.tx_hash = Fill(171)
    /\ hin_a.payload.amount = 1000000000
    /\ hin_a.payload.secret_hash = Fill(205)
    /\ hin_a.payload.aztec_address = Fill(239)
    /\ hin_a.payload.block_height = 100
    /\ hin_a.nonce = 1
    /\ C21_WordOf(C21_Preimage, 2) = [k \in 1..32 |-> IF k = 29 THEN 59
                                                       ELSE IF k = 30 THEN 154
                                                       ELSE IF k = 31 THEN 202
                                                       ELSE 0]

\* C22: the digest is a function of (payload, nonce). Equal inputs give the
\* same digest; inputs that differ in any field are encoded to different
\* pre-images and, the hash being collision-free, give different digests.
C22_HashIsFunctionOfInput ==
    (att_a # NotSigned /\ att_b # NotSigned) =>
        /\ hin_a = hin_b => att_a.signature.signed = att_b.signature.signed
        /\ hin_a # hin_b =>
              /\ att_a.signature.signed.keccak256 # att_b.signature.signed.keccak256
              /\ att_a.signature.signed # att_b.signature.signed

C22_Witness ==
    /\ att_a # NotSigned
    /\ att_b # NotSigned
    /\ hin_a.payload = hin_b.payload
    /\ hin_a.nonce = 1
    /\ hin_b.nonce = 2
    /\ att_a.signature.signed # att_b.signature.signed

\* C28: the six payload words submit_attestation encodes are, word for word
\* and in the same order, the six words that were hashed when the same
\* attestation was signed; the nonce word is the nonce that was signed.
C28_SubmittedWordsAreSignedWords ==
    encoded_a # NotEncoded =>
        /\ Len(encoded_a) = 192
        /\ \A k \in 1..6 :
              C21_WordOf(encoded_a, k) = C21_WordOf(C21_Preimage, k)
        /\ C21_IsUint(C21_WordOf(encoded_a, 5), hin_a.nonce)

C28_Witness ==
    /\ encoded_a # NotEncoded
    /\ hin_a.nonce = 2
    /\ hin_a.payload.block_height = 100
    /\ C21_WordOf(encoded_a, 5) = C21_WordOf(C21_Preimage, 5)

\* --------------------------------------------------------- claims C27, C29
\* no scan error occurs in the run so far: the chain feed has not failed, and
\* no block of the chain holds a malformed memo
C27_NoScanError ==
    /\ feed_errors = 0
    /\ \A h \in 1..MaxHeight : ~HasMalformed(chain[h])

\* C27: when no scan error occurs, each qualifying deposit is enqueued at most
\* once over the whole run: a block scanned fully and successfully on one
\* tick is not scanned again on a later one. So a deposit being enqueued is
\* not one enqueued before: it is neither waiting in the channel nor the
\* payload the consumer dequeued from it last.
C27_EnqueuedAtMostOnce ==
    [][ (Enqueues /\ C27_NoScanError) =>
          /\ range_sent'[Len(range_sent')] # payload
          /\ \A k \in 1..Len(queue) : queue[k] # range_sent'[Len(range_sent')]
      ]_vars

\* C29: the nonce counter is advanced past n only if the attestation carrying
\* nonce n was accepted by the destination contract, submit_attestation
\* reporting success only for a transaction that was included and executed.
C29_NonceAdvancesOnlyIfAccepted ==
    [][ nonce' = nonce + 1 =>
          /\ attestation.nonce = nonce
          /\ attestation.nonce \in accepted' ]_vars

=============================================================================
